---- MODULE Spec2Model ----
(***************************************************************************)
(* Project Euler 27, "Quadratic Primes" (src/main.py).                     *)
(*                                                                         *)
(* The module models the process-wide prime cache (PRIME_LIST, PRIME_SET,  *)
(* HIGHEST_CHECKED), the incremental primality test is_prime, the run      *)
(* length evaluator get_x_max and the bounded search main.                 *)
(*                                                                         *)
(* Spec     : one thread; the caller issues is_prime, get_x_max and main   *)
(*            calls in any order; main advances one loop test at a time.   *)
(* SpecConc : two threads inside is_prime with no synchronisation,         *)
(*            interleaved at the statements that touch the cache.          *)
(***************************************************************************)
EXTENDS Integers, Sequences, FiniteSets, Bags

VARIABLES
    PRIME_LIST,       \* main.py:29  list of primes found, in append order
    PRIME_SET,        \* main.py:30  set of primes found
    HIGHEST_CHECKED,  \* main.py:31  watermark
    sieved,           \* ghost: bag of the y the extend loop has trial-divided
    pc,               \* position of the single thread: idle / bloop / aloop / done / error
    n,                \* main: argument
    a_max, b_max, x_max,  \* main: best triple
    i_b,              \* main: index into PRIME_LIST (0-based, as in the source)
    b, a,             \* main: loop variables
    fresh,            \* ghost: the running main call started on the initial cache
    lastOp, argX, argA, argB, ret,  \* the last completed top-level call and its result
    tpc, tx, ty, thi, tinc,  \* SpecConc: per-thread position and locals of is_prime
    tret,             \* SpecConc: per-thread last returned value
    raced,            \* ghost: some is_prime call ran while another was in progress
    hcMax,            \* ghost: the greatest value ever written to HIGHEST_CHECKED
    calls             \* ghost: number of is_prime calls started under SpecConc

cacheVars == <<PRIME_LIST, PRIME_SET, HIGHEST_CHECKED, sieved>>
mainVars  == <<pc, n, a_max, b_max, x_max, i_b, b, a, fresh>>
callVars  == <<lastOp, argX, argA, argB, ret>>
concVars  == <<tpc, tx, ty, thi, tinc, tret, raced, hcMax, calls>>
vars      == <<cacheVars, mainVars, callVars, concVars>>

----------------------------------------------------------------------------
(* Bounds of the model. *)

\* main is called with n in 1..MaxN
MaxN == 8
\* top-level is_prime is called with x in -MaxNeg..MaxX
MaxX == 20
MaxNeg == 2
\* top-level get_x_max is called with a, b in -MaxCoef..MaxCoef
MaxCoef == 5
\* SpecConc: is_prime is called with x in 0..MaxConcX, at most MaxConcCalls times
MaxConcX == 4
MaxConcCalls == 3

----------------------------------------------------------------------------
(* The prime cache as a value, so that the pure helpers can thread it. *)

Cache == [list |-> PRIME_LIST, set |-> PRIME_SET, hc |-> HIGHEST_CHECKED, sieved |-> sieved]

InitCache == [list |-> <<>>, set |-> {}, hc |-> 1, sieved |-> EmptyBag]

SetCache(c) ==
    /\ PRIME_LIST' = c.list
    /\ PRIME_SET' = c.set
    /\ HIGHEST_CHECKED' = c.hc
    /\ sieved' = c.sieved

----------------------------------------------------------------------------
(* is_prime, main.py:34-71 *)

RECURSIVE IsqrtFrom(_, _)
IsqrtFrom(y, r) == IF (r + 1) * (r + 1) > y THEN r ELSE IsqrtFrom(y, r + 1)

\* floor(sqrt(y)) for y >= 0
FloorSqrt(y) == IsqrtFrom(y, 0)

\* main.py:59  y_mid = floor(sqrt(y)) + 1
YMidNoPlusOne(y) == FloorSqrt(y)
YMid(y) == FloorSqrt(y) + 1

\* main.py:63  y % p == 0
Divides(p, y) == y % p = 0

\* main.py:60-66  the while loop over the cached primes; i is 0-based.
\* TRUE iff include_y stays True.
RECURSIVE TrialLoop(_, _, _, _)
TrialLoop(list, y, y_mid, i) ==
    IF i < Len(list) /\ list[i + 1] < y_mid
    THEN IF Divides(list[i + 1], y) THEN FALSE ELSE TrialLoop(list, y, y_mid, i + 1)
    ELSE TRUE

\* main.py:58-69  one iteration of the for loop: trial-divide y, append if it survives
SieveOne(c, y) ==
    LET include_y == TrialLoop(c.list, y, YMid(y), 0)
    IN  [list   |-> IF include_y THEN Append(c.list, y) ELSE c.list,
         set    |-> IF include_y THEN c.set \cup {y} ELSE c.set,
         hc     |-> c.hc,
         sieved |-> c.sieved (+) SetToBag({y})]

\* main.py:57  range(HIGHEST_CHECKED+1, x+1) starts at HIGHEST_CHECKED+1
RangeStartAtWatermark(hc) == hc
RangeStart(hc) == hc + 1

\* main.py:57-69  for y in range(y, x+1)
RECURSIVE ExtendLoop(_, _, _)
ExtendLoop(c, y, x) == IF y > x THEN c ELSE ExtendLoop(SieveOne(c, y), y + 1, x)

\* main.py:70  HIGHEST_CHECKED = x
NewWatermarkPlusOne(x) == x + 1
NewWatermark(x) == x

\* main.py:55  if x > HIGHEST_CHECKED
NeedsExtendAlways(x, hc) == TRUE
NeedsExtend(x, hc) == x > hc

\* main.py:51-71  the whole call: the cache after it and the value returned
IsPrime(c, x) ==
    IF x < 2
    THEN [cache |-> c, ret |-> FALSE]
    ELSE LET c2 == IF NeedsExtend(x, c.hc)
                   THEN [ExtendLoop(c, RangeStart(c.hc), x) EXCEPT !.hc = NewWatermark(x)]
                   ELSE c
         IN  [cache |-> c2, ret |-> x \in c2.set]

----------------------------------------------------------------------------
(* get_x_max, main.py:74-104 *)

\* main.py:97  val = x**2 + a*x + b
Poly(a0, b0, x) == x * x + a0 * x + b0

\* main.py:102  x -= 1 before the break
LastSuccessNoDecrement(x) == x
LastSuccess(x) == x - 1

\* main.py:96-103  while True, from the current x
RECURSIVE GetXMaxLoop(_, _, _, _)
GetXMaxLoop(c, a0, b0, x) ==
    LET r == IsPrime(c, Poly(a0, b0, x))
    IN  IF r.ret
        THEN GetXMaxLoop(r.cache, a0, b0, x + 1)
        ELSE [cache |-> r.cache, ret |-> LastSuccess(x)]

\* main.py:95-104
GetXMax(c, a0, b0) == GetXMaxLoop(c, a0, b0, 0)

----------------------------------------------------------------------------
(* main, main.py:107-171 *)

\* main's local variables as a value
Frame == [pc |-> pc, n |-> n, a_max |-> a_max, b_max |-> b_max, x_max |-> x_max,
          i_b |-> i_b, b |-> b, a |-> a]

\* no call of main in progress
IdleFrame == [pc |-> "idle", n |-> 0, a_max |-> 0, b_max |-> 0, x_max |-> 0,
              i_b |-> 0, b |-> 0, a |-> 0]

SetFrame(m) ==
    /\ pc' = m.pc
    /\ n' = m.n
    /\ a_max' = m.a_max
    /\ b_max' = m.b_max
    /\ x_max' = m.x_max
    /\ i_b' = m.i_b
    /\ b' = m.b
    /\ a' = m.a

\* main.py:156-161  seed the cache with is_prime(n-1), set the sentinel, i_b = 0
MainEnter(c, N) ==
    [m |-> [IdleFrame EXCEPT !.pc = "bloop", !.n = N,
                             !.a_max = -1, !.b_max = -1, !.x_max = -1, !.i_b = 0],
     c |-> IsPrime(c, N - 1).cache]

\* main.py:164-165  a_lo = 1 - b; a_lo += (a_lo % 2 == 0)
ALo(b0) == LET a_lo == 1 - b0 IN a_lo + (IF a_lo % 2 = 0 THEN 1 ELSE 0)

\* main.py:162-166, 171  the test of the while loop: PRIME_LIST[i_b] raises
\* IndexError past the end of the list; otherwise enter the for loop or return
MainBTest(m, c) ==
    IF m.i_b >= Len(c.list)
    THEN [m EXCEPT !.pc = "error"]
    ELSE IF c.list[m.i_b + 1] < m.n
         THEN [m EXCEPT !.pc = "aloop", !.b = c.list[m.i_b + 1],
                        !.a = ALo(c.list[m.i_b + 1])]
         ELSE [m EXCEPT !.pc = "done"]

\* main.py:168  if x > x_max
ImprovesOrTies(x, xm) == x >= xm
Improves(x, xm) == x > xm

\* main.py:166-170  one turn of `for a in range(a_lo, n, 2)`, or its end and i_b += 1
MainATest(m, c) ==
    IF m.a < m.n
    THEN LET r == GetXMax(c, m.a, m.b)
         IN  [m |-> IF Improves(r.ret, m.x_max)
                    THEN [m EXCEPT !.a_max = m.a, !.b_max = m.b, !.x_max = r.ret,
                                   !.a = m.a + 2]
                    ELSE [m EXCEPT !.a = m.a + 2],
              c |-> r.cache]
    ELSE [m |-> [m EXCEPT !.pc = "bloop", !.i_b = m.i_b + 1, !.b = 0, !.a = 0],
          c |-> c]

\* main.py:171 / the uncaught IndexError of main.py:162: what the caller gets
Outcome(m) ==
    IF m.pc = "error"
    THEN [raised |-> TRUE, value |-> <<0, 0, 0>>]
    ELSE [raised |-> FALSE, value |-> <<m.a_max, m.b_max, m.x_max>>]

\* main.py:162-171  the loops run to the end
RECURSIVE MainRun(_, _)
MainRun(m, c) ==
    IF m.pc = "bloop" THEN MainRun(MainBTest(m, c), c)
    ELSE IF m.pc = "aloop"
         THEN LET r == MainATest(m, c) IN MainRun(r.m, r.c)
         ELSE m

\* main.py:29-31, 107-171  main(N) in a process that has made no call before
FreshOutcome(N) == LET e == MainEnter(InitCache, N) IN Outcome(MainRun(e.m, e.c))

----------------------------------------------------------------------------
(* Initial state: main.py:29-31, no call made yet. *)

Threads == {1, 2}

NoneT == [t \in Threads |-> 0]

Init ==
    /\ PRIME_LIST = <<>>
    /\ PRIME_SET = {}
    /\ HIGHEST_CHECKED = 1
    /\ sieved = EmptyBag
    /\ pc = "idle" /\ n = 0 /\ a_max = 0 /\ b_max = 0 /\ x_max = 0
    /\ i_b = 0 /\ b = 0 /\ a = 0
    /\ fresh = FALSE
    /\ lastOp = "none" /\ argX = 0 /\ argA = 0 /\ argB = 0 /\ ret = 0
    /\ tpc = [t \in Threads |-> "idle"]
    /\ tx = NoneT /\ ty = NoneT /\ thi = NoneT
    /\ tinc = [t \in Threads |-> FALSE]
    /\ tret = [t \in Threads |-> FALSE]
    /\ raced = FALSE
    /\ hcMax = 1
    /\ calls = 0

----------------------------------------------------------------------------
(* Spec: the operations of one thread. *)

\* a top-level call is_prime(x), main.py:34-71
CallIsPrime(x) ==
    /\ pc = "idle"
    /\ LET r == IsPrime(Cache, x)
       IN  /\ SetCache(r.cache)
           /\ ret' = r.ret
    /\ lastOp' = "is_prime" /\ argX' = x /\ argA' = 0 /\ argB' = 0
    /\ UNCHANGED <<mainVars, concVars>>

\* a top-level call get_x_max(a0, b0), main.py:74-104
CallGetXMax(a0, b0) ==
    /\ pc = "idle"
    /\ LET r == GetXMax(Cache, a0, b0)
       IN  /\ SetCache(r.cache)
           /\ ret' = r.ret
    /\ lastOp' = "get_x_max" /\ argX' = 0 /\ argA' = a0 /\ argB' = b0
    /\ UNCHANGED concVars
    /\ UNCHANGED mainVars

\* main(N) is called and runs up to the first test of the while loop, main.py:126-161
MainStart(N) ==
    /\ pc = "idle"
    /\ N > 0
    /\ LET e == MainEnter(Cache, N)
       IN  /\ SetFrame(e.m)
           /\ SetCache(e.c)
    /\ fresh' = (Cache = InitCache)
    /\ lastOp' = "main" /\ argX' = N /\ argA' = 0 /\ argB' = 0 /\ ret' = 0
    /\ UNCHANGED concVars

\* the test `while PRIME_LIST[i_b] < n`, main.py:162-165, 171
MainBLoop ==
    /\ pc = "bloop"
    /\ SetFrame(MainBTest(Frame, Cache))
    /\ UNCHANGED <<cacheVars, fresh, callVars, concVars>>

\* one turn of the for loop, or its end, main.py:166-170
MainALoop ==
    /\ pc = "aloop"
    /\ LET r == MainATest(Frame, Cache)
       IN  /\ SetFrame(r.m)
           /\ SetCache(r.c)
    /\ UNCHANGED <<fresh, callVars, concVars>>

\* control goes back to the caller: with the triple (main.py:171) or with the
\* IndexError raised at main.py:162
MainReturn ==
    /\ pc \in {"done", "error"}
    /\ ret' = Outcome(Frame)
    /\ SetFrame(IdleFrame)
    /\ fresh' = FALSE
    /\ UNCHANGED <<cacheVars, lastOp, argX, argA, argB, concVars>>

Next ==
    \/ \E x \in -MaxNeg..MaxX : CallIsPrime(x)
    \/ \E a0 \in -MaxCoef..MaxCoef, b0 \in -MaxCoef..MaxCoef : CallGetXMax(a0, b0)
    \/ \E N \in 1..MaxN : MainStart(N)
    \/ MainBLoop
    \/ MainALoop
    \/ MainReturn

Spec == Init /\ [][Next]_vars

----------------------------------------------------------------------------
(* SpecConc: two threads call is_prime with no synchronisation.  A call is  *)
(* cut at the statements that read or write the shared cache.              *)

\* is_prime(x) is called by thread t
TCall(t, x) ==
    /\ tpc[t] = "idle"
    /\ calls < MaxConcCalls
    /\ calls' = calls + 1
    /\ tpc' = [tpc EXCEPT ![t] = "check"]
    /\ tx' = [tx EXCEPT ![t] = x]
    /\ raced' = (raced \/ \E u \in Threads \ {t} : tpc[u] # "idle")
    /\ UNCHANGED <<cacheVars, mainVars, callVars, ty, thi, tinc, tret, hcMax>>

\* main.py:51-55  x < 2 returns False; otherwise HIGHEST_CHECKED is read for the test
TCheck(t) ==
    /\ tpc[t] = "check"
    /\ IF tx[t] < 2
       THEN /\ tpc' = [tpc EXCEPT ![t] = "idle"]
            /\ tret' = [tret EXCEPT ![t] = FALSE]
       ELSE /\ tpc' = [tpc EXCEPT ![t] =
                          IF NeedsExtend(tx[t], HIGHEST_CHECKED) THEN "range" ELSE "ret"]
            /\ UNCHANGED tret
    /\ UNCHANGED <<cacheVars, mainVars, callVars, tx, ty, thi, tinc, raced, hcMax, calls>>

\* where the for loop goes with its next y: the body, or past the loop
LoopAt(y, hi) == IF y <= hi THEN "trial" ELSE "write"

\* main.py:57  HIGHEST_CHECKED is read again to build range(HIGHEST_CHECKED+1, x+1)
TRange(t) ==
    /\ tpc[t] = "range"
    /\ ty' = [ty EXCEPT ![t] = RangeStart(HIGHEST_CHECKED)]
    /\ thi' = [thi EXCEPT ![t] = tx[t]]
    /\ tpc' = [tpc EXCEPT ![t] = LoopAt(RangeStart(HIGHEST_CHECKED), tx[t])]
    /\ UNCHANGED <<cacheVars, mainVars, callVars, tx, tinc, tret, raced, hcMax, calls>>

\* main.py:58-67  y is trial-divided against the list as it is now
TTrial(t) ==
    /\ tpc[t] = "trial"
    /\ LET include_y == TrialLoop(PRIME_LIST, ty[t], YMid(ty[t]), 0)
       IN  /\ tinc' = [tinc EXCEPT ![t] = include_y]
           /\ IF include_y
              THEN /\ tpc' = [tpc EXCEPT ![t] = "append"]
                   /\ UNCHANGED ty
              ELSE /\ tpc' = [tpc EXCEPT ![t] = LoopAt(ty[t] + 1, thi[t])]
                   /\ ty' = [ty EXCEPT ![t] = ty[t] + 1]
    /\ sieved' = sieved (+) SetToBag({ty[t]})
    /\ UNCHANGED <<PRIME_LIST, PRIME_SET, HIGHEST_CHECKED, mainVars, callVars,
                   tx, thi, tret, raced, hcMax, calls>>

\* main.py:68  PRIME_LIST.append(y)
TAppend(t) ==
    /\ tpc[t] = "append"
    /\ PRIME_LIST' = Append(PRIME_LIST, ty[t])
    /\ tpc' = [tpc EXCEPT ![t] = "add"]
    /\ UNCHANGED <<PRIME_SET, HIGHEST_CHECKED, sieved, mainVars, callVars,
                   tx, ty, thi, tinc, tret, raced, hcMax, calls>>

\* main.py:69  PRIME_SET.add(y), then the next y
TAdd(t) ==
    /\ tpc[t] = "add"
    /\ PRIME_SET' = PRIME_SET \cup {ty[t]}
    /\ tpc' = [tpc EXCEPT ![t] = LoopAt(ty[t] + 1, thi[t])]
    /\ ty' = [ty EXCEPT ![t] = ty[t] + 1]
    /\ UNCHANGED <<PRIME_LIST, HIGHEST_CHECKED, sieved, mainVars, callVars,
                   tx, thi, tinc, tret, raced, hcMax, calls>>

\* main.py:70  HIGHEST_CHECKED = x
TWrite(t) ==
    /\ tpc[t] = "write"
    /\ HIGHEST_CHECKED' = NewWatermark(tx[t])
    /\ hcMax' = IF NewWatermark(tx[t]) > hcMax THEN NewWatermark(tx[t]) ELSE hcMax
    /\ tpc' = [tpc EXCEPT ![t] = "ret"]
    /\ UNCHANGED <<PRIME_LIST, PRIME_SET, sieved, mainVars, callVars,
                   tx, ty, thi, tinc, tret, raced, calls>>

\* main.py:71  return x in PRIME_SET
TRet(t) ==
    /\ tpc[t] = "ret"
    /\ tret' = [tret EXCEPT ![t] = tx[t] \in PRIME_SET]
    /\ tpc' = [tpc EXCEPT ![t] = "idle"]
    /\ UNCHANGED <<cacheVars, mainVars, callVars, tx, ty, thi, tinc, raced, hcMax, calls>>

NextConc ==
    \E t \in Threads :
        \/ \E x \in 0..MaxConcX : TCall(t, x)
        \/ TCheck(t)
        \/ TRange(t)
        \/ TTrial(t)
        \/ TAppend(t)
        \/ TAdd(t)
        \/ TWrite(t)
        \/ TRet(t)

SpecConc == Init /\ [][NextConc]_vars

----------------------------------------------------------------------------
(* Reference notions the claims are stated with; none of them is used by   *)
(* the model of the code above.                                            *)

\* the textbook definition: no divisor other than 1 and v
IsPrimeRef(v) == v >= 2 /\ \A d \in 2..(v - 1) : v % d # 0

RefPoly(a0, b0, k) == k * k + a0 * k + b0

Abs(v) == IF v < 0 THEN -v ELSE v

\* r is the run length of k^2 + a0*k + b0: every k in 0..r gives a prime and
\* r + 1 does not (r = -1: the value at 0 is not prime)
IsRunLength(a0, b0, r) ==
    /\ r >= -1
    /\ \A k \in 0..r : IsPrimeRef(RefPoly(a0, b0, k))
    /\ ~IsPrimeRef(RefPoly(a0, b0, r + 1))

\* for b0 >= 2 the value at k = b0 or at k = 2*b0 is a proper multiple of b0,
\* so a run is shorter than 2*|b0|
RunLengthRef(a0, b0) == CHOOSE r \in -1..(2 * Abs(b0)) : IsRunLength(a0, b0, r)

\* the pairs main(N) enumerates: b0 a prime below N, a0 odd, 1 - b0 <= a0 < N
Enumerated(N) ==
    {p \in (-N..N) \X (0..N) :
        /\ IsPrimeRef(p[2]) /\ p[2] < N
        /\ p[1] % 2 = 1 /\ p[1] >= 1 - p[2] /\ p[1] < N}

\* iteration order of main: b ascending, then a ascending
Before(p, q) == p[2] < q[2] \/ (p[2] = q[2] /\ p[1] <= q[1])

\* all pairs with |a0| < N and |b0| < N
AllPairs(N) == ((1 - N)..(N - 1)) \X ((1 - N)..(N - 1))

\* the maximum run length over all pairs with |a0| < N and |b0| < N
BruteMax(N) ==
    CHOOSE r \in -1..(2 * N) :
        /\ \E p \in AllPairs(N) : RunLengthRef(p[1], p[2]) = r
        /\ \A p \in AllPairs(N) : RunLengthRef(p[1], p[2]) <= r

----------------------------------------------------------------------------
(* Claims checked under Spec. *)

\* C1: after any sequence of earlier calls, in any order, is_prime(x) returns
\* True iff x is prime; in particular False for every x < 2.
C1_IsPrimeCorrect ==
    lastOp = "is_prime" =>
        /\ ret = IsPrimeRef(argX)
        /\ (argX < 2 => ret = FALSE)

\* C1 witness: a prime answered True from the cache after a larger query
C1_Witness ==
    /\ lastOp = "is_prime" /\ pc = "idle"
    /\ ret = TRUE
    /\ argX < HIGHEST_CHECKED

ListSet == {PRIME_LIST[i] : i \in 1..Len(PRIME_LIST)}

\* C5: after every completed is_prime call PRIME_LIST is strictly ascending and
\* holds exactly the primes in [2, HIGHEST_CHECKED], and PRIME_SET has the same
\* elements as PRIME_LIST.
C5_CacheInvariant ==
    /\ \A i \in 1..Len(PRIME_LIST), j \in 1..Len(PRIME_LIST) :
           i < j => PRIME_LIST[i] < PRIME_LIST[j]
    /\ ListSet = {v \in 2..HIGHEST_CHECKED : IsPrimeRef(v)}
    /\ PRIME_SET = ListSet

\* C5 witness: a cache of at least four primes whose watermark is composite
C5_Witness ==
    /\ Len(PRIME_LIST) >= 4
    /\ HIGHEST_CHECKED \notin PRIME_SET

\* C6: get_x_max(a, b) returns the largest n >= 0 such that every value at
\* 0..n is prime (the value at n + 1 is not), and -1 exactly when b is not prime.
C6_GetXMaxCorrect ==
    lastOp = "get_x_max" =>
        /\ IsRunLength(argA, argB, ret)
        /\ (ret = -1 <=> ~IsPrimeRef(argB))

\* C6 witness: a run of at least three primes with a negative coefficient a
C6_Witness ==
    /\ lastOp = "get_x_max"
    /\ ret >= 2
    /\ argA < 0

Best == <<a_max, b_max, x_max>>

\* C7, the steps: main starts with the sentinel; the best triple is overwritten
\* only by a turn of the for loop whose candidate (a, b) has a run length
\* strictly greater than x_max, and then becomes that candidate.
C7_Step ==
    /\ (pc = "idle" /\ pc' # "idle") => Best' = <<-1, -1, -1>>
    /\ (pc # "idle" /\ pc' # "idle" /\ Best' # Best) =>
           /\ pc = "aloop" /\ a < n
           /\ x_max' > x_max
           /\ x_max' = RunLengthRef(a, b)
           /\ a_max' = a /\ b_max' = b

\* C7, the result: the returned pair is the first, in iteration order, of the
\* enumerated pairs that attain the greatest run length.
C7_Final ==
    (pc = "done" /\ Enumerated(n) # {}) =>
        /\ <<a_max, b_max>> \in Enumerated(n)
        /\ x_max = RunLengthRef(a_max, b_max)
        /\ \A p \in Enumerated(n) :
               /\ RunLengthRef(p[1], p[2]) <= x_max
               /\ RunLengthRef(p[1], p[2]) = x_max => Before(<<a_max, b_max>>, p)

\* C7: the best triple starts at (-1, -1, -1), changes only on strict
\* improvement, and the pair returned is the first that attains the maximum.
C7_StrictImprovementFirstWins == [][C7_Step]_vars /\ []C7_Final

\* C7 witness: main returned and another enumerated pair ties with the result
C7_Witness ==
    /\ pc = "done"
    /\ \E p \in Enumerated(n) :
           p # <<a_max, b_max>> /\ RunLengthRef(p[1], p[2]) = x_max

\* C8, the steps: HIGHEST_CHECKED never decreases; the integers a step sieves
\* lie in (HIGHEST_CHECKED, HIGHEST_CHECKED']; a top-level call with x < 2 or
\* x <= HIGHEST_CHECKED leaves the whole cache unchanged.
C8_Step ==
    /\ HIGHEST_CHECKED' >= HIGHEST_CHECKED
    /\ \A y \in BagToSet(sieved') :
           CopiesIn(y, sieved') > CopiesIn(y, sieved) =>
               y > HIGHEST_CHECKED /\ y <= HIGHEST_CHECKED'
    /\ (pc = "idle" /\ pc' = "idle" /\ lastOp' = "is_prime"
          /\ (argX' < 2 \/ argX' <= HIGHEST_CHECKED)) => UNCHANGED cacheVars

\* C8, the count: no integer has been trial-divided twice.
C8_AtMostOnce == \A y \in BagToSet(sieved) : CopiesIn(y, sieved) <= 1 /\ y >= 2

\* C8: each integer is sieved at most once, the watermark never decreases, and
\* calls answered below 2 or from the cache do no sieving.
C8_SievedAtMostOnce == [][C8_Step]_vars /\ []C8_AtMostOnce

\* C8 witness: a composite answered from the cache, everything up to the
\* watermark having been sieved
C8_Witness ==
    /\ lastOp = "is_prime" /\ pc = "idle"
    /\ argX >= 2 /\ argX < HIGHEST_CHECKED
    /\ ret = FALSE
    /\ BagCardinality(sieved) = HIGHEST_CHECKED - 1

\* C2: for every positive N, main(N) returns a triple whose x_max is the
\* maximum run length over all pairs with |a| < N and |b| < N, attained by the
\* returned pair.
C2_MainReturnsMaximum ==
    pc \in {"done", "error"} =>
        /\ pc = "done"
        /\ x_max = BruteMax(n)
        /\ IsRunLength(a_max, b_max, x_max)

\* C3: whatever the cache main(N) starts with, a returned triple has |a| < N
\* and |b| < N.
C3_ReturnedWithinBound ==
    pc = "done" => Abs(a_max) < n /\ Abs(b_max) < n

\* C4: main(N) started on the initial cache never leaves the while loop by
\* indexing past the end of PRIME_LIST: it returns a triple.
C4_FreshMainReturns == fresh => pc # "error"

\* C10: main(N) gives the caller what main(N) gives in a process that has made
\* no call before: the same triple, or a failure in both.
C10_OutcomeIndependentOfCache ==
    pc \in {"done", "error"} => Outcome(Frame) = FreshOutcome(n)

----------------------------------------------------------------------------
(* What holds of main for N >= 3, where the while loop always finds a       *)
(* cached prime >= N.                                                      *)

\* main(N), N >= 3: returns, within the bound, the maximum over all pairs,
\* and the same triple whatever the cache held before.
MainSoundFromThree ==
    (n >= 3 /\ pc \in {"done", "error"}) =>
        /\ pc = "done"
        /\ Abs(a_max) < n /\ Abs(b_max) < n
        /\ x_max = BruteMax(n)
        /\ IsRunLength(a_max, b_max, x_max)
        /\ Outcome(Frame) = FreshOutcome(n)

----------------------------------------------------------------------------
(* Claim checked under SpecConc. *)

\* PRIME_LIST holds a duplicate or an out-of-order entry
ListDisordered ==
    \E i \in 1..Len(PRIME_LIST), j \in 1..Len(PRIME_LIST) :
        i < j /\ PRIME_LIST[i] >= PRIME_LIST[j]

\* HIGHEST_CHECKED is lower than a value already written to it
WatermarkLowered == HIGHEST_CHECKED < hcMax

\* C9: unsynchronised concurrent is_prime calls can break the cache invariant
\* (a duplicate or out-of-order entry, a lowered watermark), and it is the
\* overlap of two calls that does it: calls that never overlap leave the list
\* strictly ascending and the watermark at its greatest value.
C9_BrokenOnlyByRace == (ListDisordered \/ WatermarkLowered) => raced

\* C9 witness: after a race the list holds a duplicate out of order and the
\* watermark is below a value written earlier
C9_Witness ==
    /\ raced
    /\ \E i \in 1..Len(PRIME_LIST), j \in 1..Len(PRIME_LIST) :
           i < j /\ PRIME_LIST[i] = PRIME_LIST[j]
    /\ \E i \in 1..Len(PRIME_LIST), j \in 1..Len(PRIME_LIST) :
           i < j /\ PRIME_LIST[i] > PRIME_LIST[j]
    /\ WatermarkLowered

====
